---- MODULE Spec2Model ----
(***************************************************************************)
(* Model of the feedback pipeline of the LLM-feedback recommender          *)
(* (src/App.tsx, src/services/geminiService.ts).                           *)
(*                                                                         *)
(* Numbers: tag weights and deltas are JavaScript numbers; the model keeps *)
(* them as integers counted in tenths (Scale), so the prune threshold 0.1  *)
(* is 1 and MAX_TAG_WEIGHT 40 is 400.                                      *)
(*                                                                         *)
(* Objects: a WeightedTag is a JavaScript object that several arrays may   *)
(* hold at once ([...list] copies the array, not its elements), and the    *)
(* code updates .weight and .tag in place.  The model therefore keeps a    *)
(* heap of WeightedTag objects and lists of object ids.                    *)
(***************************************************************************)
EXTENDS Integers, Sequences, FiniteSets, TLC

\* ------------------------------------------------------------------ bounds
MaxBatchLen == 2      \* longest adjustment batch an analysis returns
MaxDecayLen == 2      \* longest decay list the cleanup collaborator returns
MaxOps == 2           \* profile operations applied in a row (SpecProfile)
MaxSubmits == 4       \* feedback submissions in one run
MaxUserActions == 1   \* resets in one run (SpecReset)
MaxResetSubmits == 3  \* feedback submissions in a run with a reset (SpecReset)
MaxApplies == 1       \* clicks on the "show" button in one run
MaxSeqs == 2          \* refresh sequences started in one run
FeedSize == 3         \* candidates without a query (25 in the program)
PoolASize == 2        \* interest-ranked candidates with a query (15)
PoolBSize == 2        \* keyword-search candidates with a query (10)

\* --------------------------------------------------------------- constants
Scale == 10                      \* tenths
MAX_TAG_WEIGHT == 40 * Scale
PruneThreshold == 1              \* 0.1, in tenths
DecayFloor == 10 * Scale         \* largest decay applied per suggestion

Min(a, b) == IF a < b THEN a ELSE b
Abs(a) == IF a < 0 THEN -a ELSE a

\* -------------------------------------------------------------------- tags
\* A tag is a sequence of characters: letters, the blank and a decorative
\* symbol "*" that stands for the emoji prefix of the vocabulary.
TagJazz == <<"J", "z">>
TagJazzDeco == <<"*", " ", "j", "z">>
TagRock == <<"R", "k">>
TagFood == <<"*", " ", "F", "d">>
TagDeco == <<"*">>
TagPool == {TagJazz, TagJazzDeco, TagRock, TagFood}

Lower(c) ==
  CASE c = "J" -> "j"
    [] c = "R" -> "r"
    [] c = "F" -> "f"
    [] OTHER -> c

IsDecorative(c) == c = "*"

RECURSIVE CollapseBlanks(_)
CollapseBlanks(s) ==
  IF s = <<>> THEN <<>>
  ELSE IF Head(s) = " " /\ (Len(s) = 1 \/ s[2] = " ") THEN CollapseBlanks(Tail(s))
  ELSE <<Head(s)>> \o CollapseBlanks(Tail(s))

TrimLeft(s) == IF s # <<>> /\ Head(s) = " " THEN Tail(s) ELSE s

\* canonical comparison key: strip decorative symbols, case-fold, collapse
\* and trim whitespace
normalizeTag(tag) ==
  LET stripped == SelectSeq(tag, LAMBDA c : ~IsDecorative(c))
      folded == [i \in 1..Len(stripped) |-> Lower(stripped[i])]
  IN TrimLeft(CollapseBlanks(folded))

\* -------------------------------------------------------------------- heap
\* Array.prototype.findIndex, given the callback's verdict on each element:
\* first index whose element passes, 0 for -1
FindIndex(passes) ==
  LET hits == {i \in 1..Len(passes) : passes[i]}
  IN IF hits = {} THEN 0 ELSE CHOOSE i \in hits : \A j \in hits : i <= j

\* Array.prototype.splice(i, 1)
Splice(seq, i) == SubSeq(seq, 1, i - 1) \o SubSeq(seq, i + 1, Len(seq))

\* id of the object a `{ tag, weight }` literal creates
NewId(h) == CHOOSE n \in 1..(Cardinality(DOMAIN h) + 1) : n \notin DOMAIN h

Alloc(h, obj) == [i \in DOMAIN h \cup {NewId(h)} |-> IF i \in DOMAIN h THEN h[i] ELSE obj]

Range(f) == {f[i] : i \in DOMAIN f}

\* the values (tag, weight) a list of object ids shows
ViewList(h, list) == [i \in 1..Len(list) |-> h[list[i]]]
ViewProfile(h, p) == [interests |-> ViewList(h, p.interests), dislikes |-> ViewList(h, p.dislikes)]
KeysOf(h, list) == {normalizeTag(h[id].tag) : id \in Range(list)}

\* ------------------------------------------------- handleFeedbackSubmit
\* Math.min(..., MAX_TAG_WEIGHT)
ClampNone(w) == w
Clamp(w) == Min(w, MAX_TAG_WEIGHT)

\* the entry of the opposite list an adjustment removes: the first one whose
\* canonical key is the adjustment's
FlipIndexExact(h, list, tag) == FindIndex([ix \in DOMAIN list |-> h[list[ix]].tag = tag])
FlipIndex(h, list, tag) ==
  FindIndex([ix \in DOMAIN list |-> normalizeTag(h[list[ix]].tag) = normalizeTag(tag)])

\* const impact = Math.abs(adj.delta)
ImpactSigned(delta) == delta
Impact(delta) == Abs(delta)

\* one iteration of analysis.adjustments.forEach; st = [heap, interests, dislikes]
ApplyOne(st, adj) ==
  LET h == st.heap
      normAdj == normalizeTag(adj.tag)
      SameKey(id) == normalizeTag(h[id].tag) = normAdj
      SameTag(id) == h[id].tag = adj.tag
  IN
  IF adj.category = "interest" THEN
    LET dislikeIdx == FlipIndex(h, st.dislikes, adj.tag)
        dis == IF dislikeIdx >= 1 THEN Splice(st.dislikes, dislikeIdx) ELSE st.dislikes
        exact == FindIndex([ix \in DOMAIN st.interests |-> SameTag(st.interests[ix])])
        existingIdx == IF exact = 0 THEN FindIndex([ix \in DOMAIN st.interests |-> SameKey(st.interests[ix])]) ELSE exact
    IN IF existingIdx >= 1 THEN
         LET id == st.interests[existingIdx]
             newWeight == Clamp(h[id].weight + adj.delta)
         IN [heap |-> [h EXCEPT ![id] = [tag |-> adj.tag, weight |-> newWeight]],
             interests |-> st.interests, dislikes |-> dis]
       ELSE IF adj.delta > 0 THEN
         [heap |-> Alloc(h, [tag |-> adj.tag, weight |-> Clamp(adj.delta)]),
          interests |-> Append(st.interests, NewId(h)), dislikes |-> dis]
       ELSE [heap |-> h, interests |-> st.interests, dislikes |-> dis]
  ELSE IF adj.category = "dislike" THEN
    LET interestIdx == FlipIndex(h, st.interests, adj.tag)
        ints == IF interestIdx >= 1 THEN Splice(st.interests, interestIdx) ELSE st.interests
        impact == Impact(adj.delta)
        exact == FindIndex([ix \in DOMAIN st.dislikes |-> SameTag(st.dislikes[ix])])
        existingIdx == IF exact = 0 THEN FindIndex([ix \in DOMAIN st.dislikes |-> SameKey(st.dislikes[ix])]) ELSE exact
    IN IF existingIdx >= 1 THEN
         LET id == st.dislikes[existingIdx]
             newWeight == Clamp(h[id].weight + impact)
         IN [heap |-> [h EXCEPT ![id].weight = newWeight],
             interests |-> ints, dislikes |-> st.dislikes]
       ELSE IF impact > 0 THEN
         [heap |-> Alloc(h, [tag |-> adj.tag, weight |-> Clamp(impact)]),
          interests |-> ints, dislikes |-> Append(st.dislikes, NewId(h))]
       ELSE [heap |-> h, interests |-> ints, dislikes |-> st.dislikes]
  ELSE st

\* (a value used more than once is bound as the element of a one-element
\* set, which evaluates it once)
RECURSIVE ForEachAdjustment(_, _)
ForEachAdjustment(st, batch) ==
  IF batch = <<>> THEN st
  ELSE CHOOSE out \in {ForEachAdjustment(next, Tail(batch)) :
                         next \in {ApplyOne(st, Head(batch))}} : TRUE

\* .filter(i => i.weight > 0.1)
KeepWeightyAboveOne(h, list) == SelectSeq(list, LAMBDA id : h[id].weight > Scale)
KeepWeighty(h, list) == SelectSeq(list, LAMBDA id : h[id].weight > PruneThreshold)

\* lines 218-291: the profile handleFeedbackSubmit builds from the profile it
\* read (snapshot) and the adjustments; the heap shows the in-place updates
ApplyAdjustments(h, snapshot, batch) ==
  CHOOSE out \in
    {[heap |-> st.heap,
      profile |-> [interests |-> KeepWeighty(st.heap, st.interests),
                   dislikes |-> KeepWeighty(st.heap, st.dislikes)]] :
       st \in {ForEachAdjustment(
                 [heap |-> h, interests |-> snapshot.interests, dislikes |-> snapshot.dislikes],
                 batch)}} : TRUE

\* ------------------------------------------------------ pruneUserProfile
\* lines 441-445: the decay suggestions become negative deltas
EnsureNegative(delta) == IF delta < 0 THEN delta ELSE -Abs(delta)
PruneAdjustments(decay) == [i \in 1..Len(decay) |-> [tag |-> decay[i].tag, delta |-> EnsureNegative(decay[i].delta)]]

\* ----------------------------------------------- triggerBackgroundCleanup
\* Math.max(-10, Math.min(0, adj.delta))
SafeDeltaUnclamped(delta) == IF delta > 0 THEN 0 ELSE delta
SafeDelta(delta) == IF delta < -DecayFloor THEN -DecayFloor ELSE IF delta > 0 THEN 0 ELSE delta

\* one iteration of result.adjustments.forEach on [...prev.interests]
DecayOne(h, interests, adj) ==
  LET SameTag(id) == h[id].tag = adj.tag
      SameKey(id) == normalizeTag(h[id].tag) = normalizeTag(adj.tag)
      exact == FindIndex([ix \in DOMAIN interests |-> SameTag(interests[ix])])
      idx == IF exact = 0 THEN FindIndex([ix \in DOMAIN interests |-> SameKey(interests[ix])]) ELSE exact
  IN IF idx >= 1 THEN
       LET id == interests[idx]
           w == h[id].weight + SafeDelta(adj.delta)
       IN [h EXCEPT ![id].weight = IF w < 0 THEN 0 ELSE w]
     ELSE h

RECURSIVE ForEachDecay(_, _, _)
ForEachDecay(h, interests, adjustments) ==
  IF adjustments = <<>> THEN h
  ELSE CHOOSE out \in {ForEachDecay(next, interests, Tail(adjustments)) :
                         next \in {DecayOne(h, interests, Head(adjustments))}} : TRUE

\* lines 145-182: the updater passed to setUserProfile
ApplyDecayAsBatch(h, prev, adjustments) ==
  ApplyAdjustments(h, prev, [i \in 1..Len(adjustments) |->
                               [tag |-> adjustments[i].tag, category |-> "interest",
                                delta |-> adjustments[i].delta]])
ApplyDecay(h, prev, adjustments) ==
  CHOOSE out \in
    {[heap |-> h2,
      profile |-> [interests |-> KeepWeighty(h2, prev.interests), dislikes |-> prev.dislikes]] :
       h2 \in {ForEachDecay(h, prev.interests, adjustments)}} : TRUE

\* ----------------------------------------------------------------- catalog
\* COMBINED_POSTS: the immutable catalog, in catalog order.  tagWeights is
\* the optional per-tag relevance (tenths); a tag without one counts 1.0.
NoWeights == [t \in {} |-> 0]
Catalog == <<
  [id |-> "p1", tags |-> <<TagJazz>>, tagWeights |-> [t \in {TagJazz} |-> 20], likes |-> 9,
   title |-> [en |-> <<"J", "z", " ", "n">>, zh |-> <<"y">>]],
  [id |-> "p2", tags |-> <<TagRock, TagJazzDeco>>, tagWeights |-> [t \in {TagJazzDeco} |-> 5], likes |-> 99,
   title |-> [en |-> <<"R", "k">>, zh |-> <<"g">>]],
  [id |-> "p3", tags |-> <<TagFood>>, tagWeights |-> NoWeights, likes |-> 0,
   title |-> [en |-> <<"F", "d">>, zh |-> <<"c">>]],
  [id |-> "p4", tags |-> <<TagRock, TagFood>>, tagWeights |-> NoWeights, likes |-> 9,
   title |-> [en |-> <<"h", "k">>, zh |-> <<"c", "g">>]] >>
PostIds == {Catalog[i].id : i \in 1..Len(Catalog)}

\* two posts of another catalog: the same tag as the whole subject of one
\* post (relevance 50.0) and as a side note of the other (0.6)
RankFixtures == <<
  [id |-> "p5", tags |-> <<TagRock>>, tagWeights |-> [t \in {TagRock} |-> 500], likes |-> 9,
   title |-> [en |-> <<"R", "k">>, zh |-> <<"g">>]],
  [id |-> "p6", tags |-> <<TagRock>>, tagWeights |-> [t \in {TagRock} |-> 6], likes |-> 9,
   title |-> [en |-> <<"n">>, zh |-> <<"y">>]] >>
AllPosts == Catalog \o RankFixtures
PostOf(id) == AllPosts[CHOOSE i \in 1..Len(AllPosts) : AllPosts[i].id = id]
Relevance(post, tag) == IF tag \in DOMAIN post.tagWeights THEN post.tagWeights[tag] ELSE Scale

\* ------------------------------------------------------------ ScoringEngine
\* Scores are counted in thousandths.
POPULARITY_WEIGHT == 50          \* 0.05
INTEREST_MULTIPLIER == 4
SYNERGY_BONUS == 5000            \* 5.0
DISLIKE_PENALTY_MULTIPLIER == 5
VETO_THRESHOLD == 2500           \* 25.0, in hundredths (weight * relevance)
VetoSentinel == 1000000          \* 1000

\* Math.log10 on the like counts of the catalog
Log10(n) == CASE n = 1 -> 0 [] n = 10 -> 1 [] n = 100 -> 2 [] OTHER -> 0

IsSubstring(a, b) == \E i \in 0..(Len(b) - Len(a)) : SubSeq(b, i + 1, i + Len(a)) = a

\* the profile entry that matches a post tag: equal canonical keys first,
\* substring containment of the keys second; the empty key matches nothing
MatchEntry(h, list, postTag) ==
  LET key == normalizeTag(postTag)
      Equal(id) == normalizeTag(h[id].tag) = key
      Contains(id) == LET k == normalizeTag(h[id].tag)
                      IN k # <<>> /\ (IsSubstring(k, key) \/ IsSubstring(key, k))
      eq == FindIndex([ix \in DOMAIN list |-> Equal(list[ix])])
  IN IF key = <<>> THEN 0 ELSE IF eq >= 1 THEN eq ELSE FindIndex([ix \in DOMAIN list |-> Contains(list[ix])])

RECURSIVE SumSeq(_)
SumSeq(s) == IF s = <<>> THEN 0 ELSE Head(s) + SumSeq(Tail(s))

\* weight * relevance (hundredths) of every post tag against a profile list
Impacts(h, list, post) ==
  [i \in 1..Len(post.tags) |->
     LET m == MatchEntry(h, list, post.tags[i])
     IN IF m = 0 THEN 0 ELSE h[list[m]].weight * Relevance(post, post.tags[i])]

HitCount(h, list, post) == Cardinality({i \in 1..Len(post.tags) : MatchEntry(h, list, post.tags[i]) >= 1})

Vetoed(h, profile, post) ==
  \E impacts \in {Impacts(h, profile.dislikes, post)} :
    \E i \in 1..Len(post.tags) : impacts[i] >= VETO_THRESHOLD

PreVetoScore(h, profile, post) ==
  LET hits == HitCount(h, profile.interests, post)
  IN Log10(post.likes + 1) * POPULARITY_WEIGHT
     + SumSeq(Impacts(h, profile.interests, post)) * INTEREST_MULTIPLIER * 10
     + (IF hits > 1 THEN (hits - 1) * SYNERGY_BONUS ELSE 0)
     - SumSeq(Impacts(h, profile.dislikes, post)) * DISLIKE_PENALTY_MULTIPLIER * 10

calculateRelevanceScore(h, profile, post) ==
  CHOOSE out \in
    {IF Vetoed(h, profile, post) THEN -VetoSentinel - (score \div 10) ELSE score :
       score \in {PreVetoScore(h, profile, post)}} : TRUE

\* Array.prototype.sort((a, b) => (b.score || 0) - (a.score || 0)) on a
\* list of [id, score]: stable, descending
\* the place of element i: after every element with a higher score and
\* every earlier element with the same score
PositionLastTieFirst(seq, i) ==
  1 + Cardinality({j \in 1..Len(seq) :
                     seq[j].score > seq[i].score \/ (seq[j].score = seq[i].score /\ j > i)})
Position(seq, i) ==
  1 + Cardinality({j \in 1..Len(seq) :
                     seq[j].score > seq[i].score \/ (seq[j].score = seq[i].score /\ j < i)})

SortDesc(seq) ==
  CHOOSE out \in
    {[p \in 1..Len(s) |-> s[CHOOSE i \in 1..Len(s) : Position(s, i) = p]] : s \in {seq}} : TRUE

\* rankPosts: score every post, sort descending; a list of [id, score]
rankPosts(posts, h, profile) ==
  SortDesc([i \in 1..Len(posts) |->
              [id |-> posts[i], score |-> calculateRelevanceScore(h, profile, PostOf(posts[i]))]])

IdsOf(scored) == [i \in 1..Len(scored) |-> scored[i].id]

CatalogIds == [i \in 1..Len(Catalog) |-> Catalog[i].id]
Take(seq, n) == SubSeq(seq, 1, Min(n, Len(seq)))

\* ----------------------------------------------------------- HybridRetriever
NoQuery == <<>>

RECURSIVE Tokens(_, _)
\* split on blanks; cur is the token being read
Tokens(s, cur) ==
  IF s = <<>> THEN (IF cur = <<>> THEN <<>> ELSE <<cur>>)
  ELSE IF Head(s) = " " THEN (IF cur = <<>> THEN <<>> ELSE <<cur>>) \o Tokens(Tail(s), <<>>)
  ELSE Tokens(Tail(s), Append(cur, Lower(Head(s))))

FoldCase(s) == [i \in 1..Len(s) |-> Lower(s[i])]

\* substring hits of the query tokens in the titles and the tags of a post
KeywordHits(post, query) ==
  LET toks == Tokens(query, <<>>)
      Hit(tok, text) == IF IsSubstring(tok, FoldCase(text)) THEN 1 ELSE 0
  IN SumSeq([i \in 1..Len(toks) |->
        Hit(toks[i], post.title.en) + Hit(toks[i], post.title.zh)
        + SumSeq([j \in 1..Len(post.tags) |-> Hit(toks[i], post.tags[j])])])

\* "not already in Pool A"
AlreadyInNever(id, pool) == FALSE
AlreadyIn(id, pool) == id \in pool

\* getHybridFeed(COMBINED_POSTS, profile, rawSearchQuery): a list of [id, score]
getHybridFeed(h, profile, query) ==
  CHOOSE out \in
    {LET poolA == Take(ranked, PoolASize)
         inA == {poolA[i].id : i \in 1..Len(poolA)}
         byHits == SortDesc([i \in 1..Len(ranked) |->
                     [id |-> ranked[i].id, score |-> KeywordHits(PostOf(ranked[i].id), query)]])
         found == SelectSeq(byHits, LAMBDA e : e.score > 0 /\ ~AlreadyIn(e.id, inA))
         ScoreIn(id) == ranked[CHOOSE i \in 1..Len(ranked) : ranked[i].id = id].score
         poolB == [i \in 1..Min(PoolBSize, Len(found)) |-> [id |-> found[i].id, score |-> ScoreIn(found[i].id)]]
     IN IF query = NoQuery THEN Take(ranked, FeedSize) ELSE poolA \o poolB :
       ranked \in {rankPosts(CatalogIds, h, profile)}} : TRUE

\* ------------------------------------------------------- callGroqWithRetry
Retries == 3
Responses == {"429", "notOk", "network", "empty", "badJson", "ok"}
Undefined == [kind |-> "undefined"]
Thrown == [kind |-> "throw"]
Value(v) == [kind |-> "value", value |-> v]

\* the for loop from `attempt` on: a 429 waits and continues, an error is
\* rethrown on the last attempt only and swallowed before, a good answer
\* returns its parsed content; the loop running out returns undefined
RECURSIVE GroqLoop(_, _, _, _)
GroqLoop(responses, payload, attempt, retries) ==
  IF attempt >= retries THEN Undefined
  ELSE LET r == responses[attempt + 1]
       IN IF r = "429" THEN GroqLoop(responses, payload, attempt + 1, retries)
          ELSE IF r = "ok" THEN Value(payload)
          ELSE IF attempt = retries - 1 THEN Thrown
          ELSE GroqLoop(responses, payload, attempt + 1, retries)

callGroqWithRetry(responses, payload) == GroqLoop(responses, payload, 0, Retries)

\* every result a call can end with, for the answers the collaborator may give
GroqResults(payloads) ==
  {callGroqWithRetry(r, p) : r \in [1..Retries -> Responses], p \in payloads}

\* --------------------------------------------------------------------- state
VARIABLES
  heap,                \* WeightedTag objects: id -> [tag, weight]
  userProfile,         \* React state: [interests, dislikes, arr], lists of object ids and
                       \* the identity of the interests array
  feedbackHistory,     \* React state: number of feedback strings kept
  isAnalyzing,         \* React state
  allRankedPosts,      \* React state: the displayed ordering, post ids
  pendingSmartFeed,    \* React state: <<>> for null, or <<[posts, history, of]>>
  isStage1Refreshing,  \* React state
  isStage2Loading,     \* React state
  submit,              \* the handleFeedbackSubmit call waiting for analyzeFeedback
  seqs,                \* the triggerRefreshSequence calls in flight
  uncaught,            \* an exception left handleFeedbackSubmit
  budget,              \* operations started so far: [submits, user, seqs, ops, applies]
  lastOp,              \* the last profile operation, as it was applied
  lastAnalysis,        \* the last analyzeFeedback call resolved: [cycle, kind, stale]
  lastRerank,          \* the last rerankFeed call resolved: [n, kind, duration, candidates,
                       \* feed, cleanup]
  groq                 \* one callGroqWithRetry call, step by step (SpecGroq)

vars == <<heap, userProfile, feedbackHistory, isAnalyzing, allRankedPosts,
          pendingSmartFeed, isStage1Refreshing, isStage2Loading, submit, seqs, uncaught,
          budget, lastOp, lastAnalysis, lastRerank, groq>>

Idle == [pc |-> "idle"]
NoOp == [kind |-> "none"]
NoAnalysis == [cycle |-> 0, kind |-> "none", stale |-> FALSE]
NoCall == [pc |-> "none"]
NoRerank == [n |-> 0, kind |-> "none", duration |-> 0, candidates |-> <<>>, feed |-> <<>>,
             cleanup |-> FALSE]

\* objects some profile in use still holds; the others are garbage
Roots(profile, sub, sq) ==
  Range(profile.interests) \cup Range(profile.dislikes)
  \cup (IF sub.pc = "analyzing"
        THEN Range(sub.snapshot.interests) \cup Range(sub.snapshot.dislikes) ELSE {})
  \cup UNION {Range(q.profileToUse.interests) \cup Range(q.profileToUse.dislikes) : q \in sq}
Collect(h, profile, sub, sq) == [id \in DOMAIN h \cap Roots(profile, sub, sq) |-> h[id]]

\* a profile given by its values, as fresh objects: interests first
MakeProfile(h, values) ==
  LET all == values.interests \o values.dislikes
      RECURSIVE AllocAll(_, _, _)
      AllocAll(hh, i, ids) ==
        IF i > Len(all) THEN [heap |-> hh, ids |-> ids]
        ELSE AllocAll(Alloc(hh, all[i]), i + 1, Append(ids, NewId(hh)))
      r == AllocAll(h, 1, <<>>)
      n == Len(values.interests)
  IN [heap |-> r.heap,
      profile |-> [interests |-> SubSeq(r.ids, 1, n), dislikes |-> SubSeq(r.ids, n + 1, Len(all))]]

WT(tag, weight) == [tag |-> tag, weight |-> weight]

\* a profile whose interests list is the array `arr`: profiles that hold the
\* same array see it sorted together (rerankFeed sorts it in place)
WithArray(profile, arr) ==
  [interests |-> profile.interests, dislikes |-> profile.dislikes, arr |-> arr]
InitArray == <<"init", 0>>

\* userProfile.interests.sort((a, b) => b.weight - a.weight): stable,
\* descending; the place of element i
WeightPosition(h, list, i) ==
  1 + Cardinality({j \in 1..Len(list) :
                     \/ h[list[j]].weight > h[list[i]].weight
                     \/ (h[list[j]].weight = h[list[i]].weight /\ j < i)})
SortByWeight(h, list) ==
  [p \in 1..Len(list) |-> list[CHOOSE i \in 1..Len(list) : WeightPosition(h, list, i) = p]]

\* generateRandomProfile(MASTER_TAG_POOL): a few tags of the pool at low weight
ColdStartProfiles ==
  { [interests |-> <<WT(TagJazz, 50), WT(TagRock, 30), WT(TagFood, 20)>>, dislikes |-> <<>>],
    [interests |-> <<WT(TagJazzDeco, 30), WT(TagRock, 20)>>, dislikes |-> <<>>] }

\* [...COMBINED_POSTS].sort(() => 0.5 - Math.random()): some order of the catalog
Shuffles == {CatalogIds, [i \in 1..Len(CatalogIds) |-> CatalogIds[Len(CatalogIds) + 1 - i]]}

InitPipeline ==
  /\ feedbackHistory = 0
  /\ isAnalyzing = FALSE
  /\ pendingSmartFeed = <<>>
  /\ isStage1Refreshing = FALSE
  /\ isStage2Loading = FALSE
  /\ submit = Idle
  /\ seqs = {}
  /\ uncaught = FALSE
  /\ budget = [submits |-> 0, user |-> 0, seqs |-> 0, ops |-> 0, applies |-> 0,
              resets |-> 0, rseqs |-> 0, rsubmits |-> 0]
  /\ lastOp = NoOp
  /\ lastAnalysis = NoAnalysis
  /\ lastRerank = NoRerank

Init ==
  /\ \E values \in ColdStartProfiles :
       LET m == MakeProfile(<<>>, values)
       IN heap = m.heap /\ userProfile = WithArray(m.profile, InitArray)
  /\ allRankedPosts \in Shuffles
  /\ InitPipeline
  /\ groq = NoCall

\* ------------------------------------------------------ collaborator answers
Adj(tag, category, delta) == [tag |-> tag, category |-> category, delta |-> delta]

\* what the Intent Analyzer may answer with (parsed JSON)
AnalyzerBatches ==
  { <<>>,
    <<Adj(TagJazzDeco, "dislike", 80)>>,
    <<Adj(TagRock, "interest", -80), Adj(TagFood, "interest", 450)>>,
    <<Adj(TagJazz, "interest", 60), Adj(TagRock, "dislike", -300)>> }
SearchQuery == <<"j", " ", "N">>
Analysis(batch, note, query) ==
  [hasAdjustments |-> TRUE, adjustments |-> batch, note |-> note, query |-> query]
EmptyObject == [hasAdjustments |-> FALSE, adjustments |-> <<>>, note |-> "none", query |-> NoQuery]
AnalyzerPayloads ==
  {Analysis(b, "plain", NoQuery) : b \in AnalyzerBatches}
  \cup {Analysis(<<Adj(TagJazzDeco, "dislike", 80)>>, "plain", SearchQuery),
        Analysis(<<>>, "none", NoQuery), EmptyObject}

\* analyzeFeedback, lines 290-307
analyzeFeedback(result) ==
  IF result.kind = "throw" THEN Analysis(<<>>, "Failed", NoQuery)
  ELSE IF result.kind = "undefined" THEN EmptyObject
  ELSE result.value

AnalyzerResults == GroqResults(AnalyzerPayloads)

\* what the Reranker may answer with: the candidates reversed, a list with an
\* unknown id and a repeated one, an object without ids
RerankPayloads == {"reversed", "unknownAndRepeated", "noIds"}
RerankResults == GroqResults(RerankPayloads)
IdsIn(payload, candidateIds) ==
  CASE payload = "reversed" ->
         [i \in 1..Len(candidateIds) |-> candidateIds[Len(candidateIds) + 1 - i]]
    [] payload = "unknownAndRepeated" -> <<"p9", candidateIds[Len(candidateIds)], candidateIds[Len(candidateIds)]>>
    [] OTHER -> <<>>

\* rerankFeed, lines 347-365: the ordered ids
rerankFeedReversedFallback(result, candidateIds) ==
  IF result.kind = "value" THEN IdsIn(result.value, candidateIds)
  ELSE [i \in 1..Len(candidateIds) |-> candidateIds[Len(candidateIds) + 1 - i]]
rerankFeed(result, candidateIds) ==
  IF result.kind = "value" THEN IdsIn(result.value, candidateIds) ELSE candidateIds

\* Date.now() - stage2StartTime, in ms; a call that was answered 429 on every
\* attempt has waited 1000 + 2000 + 4000 ms
Durations == {2999, 3000, 7000}
Backoff(attempt) == 1000 * (2 ^ attempt)
BackoffTotal == SumSeq([a \in 1..Retries |-> Backoff(a - 1)])
MinDuration(result) == IF result.kind = "undefined" THEN BackoffTotal ELSE 0

\* what the Cleanup collaborator may answer with
Decay(tag, delta) == [tag |-> tag, delta |-> delta]
CleanupPayloads ==
  { [hasDecay |-> TRUE, decay |-> <<Decay(TagJazzDeco, -300)>>],
    [hasDecay |-> TRUE, decay |-> <<Decay(TagRock, 20), Decay(TagDeco, -50)>>],
    [hasDecay |-> FALSE, decay |-> <<>>] }

CleanupResults == GroqResults(CleanupPayloads)

\* pruneUserProfile after its gates, lines 425-454: the adjustments
pruneUserProfile(result) ==
  IF result.kind = "value" /\ result.value.hasDecay THEN PruneAdjustments(result.value.decay)
  ELSE <<>>

\* pruneUserProfile, lines 377-382: whether the collaborator is asked at all
CleanupGate(h, profile, history) == history >= 3 /\ Len(profile.interests) >= 3

\* -------------------------------------------------------------------- actions
Pending(posts, history, of) == <<[posts |-> posts, history |-> history, of |-> of]>>

\* the canonical keys a profile lists, in list order
KeyLists(h, profile) ==
  [interests |-> [i \in 1..Len(profile.interests) |-> normalizeTag(h[profile.interests[i]].tag)],
   dislikes |-> [i \in 1..Len(profile.dislikes) |-> normalizeTag(h[profile.dislikes[i]].tag)]]
NoKeys == [interests |-> <<>>, dislikes |-> <<>>]

\* the part of triggerRefreshSequence before its first await; `written` is
\* the profile the feedback cycle has just set, `read` the one retrieval reads
StartSequence(kind, profile, history, query, cycle, written) ==
  [n |-> budget.seqs + 1, kind |-> kind, cycle |-> cycle, stage |-> "wait300",
   profileToUse |-> profile, history |-> history, query |-> query,
   candidates |-> <<>>, rest |-> <<>>, written |-> written, read |-> NoKeys]

\* refresh sequences started, the one a pending analysis may start included
Started == budget.seqs + (IF submit.pc = "analyzing" THEN 1 ELSE 0)

\* FeedbackModal.tsx line 128: disabled={!reason.trim() || isAnalyzing}
SubmitEnabledAlways(analyzing) == TRUE
SubmitEnabled(analyzing) == ~analyzing

\* FeedbackModal.handleSubmit (its button is disabled while isAnalyzing) and
\* handleFeedbackSubmit up to `await analyzeFeedback`
Submit ==
  /\ SubmitEnabled(isAnalyzing)
  /\ budget.submits < MaxSubmits
  /\ Started < MaxSeqs
  /\ isAnalyzing' = TRUE
  /\ feedbackHistory' = feedbackHistory + 1
  /\ submit' = [pc |-> "analyzing", snapshot |-> userProfile,
                newHistory |-> feedbackHistory + 1, cycle |-> budget.submits + 1]
  /\ budget' = [budget EXCEPT !.submits = @ + 1]
  /\ UNCHANGED <<heap, userProfile, allRankedPosts, pendingSmartFeed,
                 isStage1Refreshing, isStage2Loading, seqs, uncaught, lastOp,
                 lastAnalysis, lastRerank, groq>>

\* line 212: `analysis.adjustments.length` and `analysis.user_note.includes`
\* on an object that lacks the field
ThrowsTypeError(analysis) ==
  ~analysis.hasAdjustments \/ (analysis.adjustments = <<>> /\ analysis.note = "none")

\* line 212: the condition of the early return
AnalysisFailedNever(analysis) == FALSE
AnalysisFailed(analysis) == analysis.adjustments = <<>> /\ analysis.note = "Failed"

\* line 310: the profile handed to triggerRefreshSequence
ProfileOverrideStale(updatedProfile, sub) == sub.snapshot
ProfileOverride(updatedProfile, sub) == updatedProfile

\* lines 218-219 read the userProfile of the render the handler was made in:
\* whether a cleanup has replaced the profile since, dropping an interest
StaleSnapshot(sub, profile, op) ==
  /\ op.kind = "decay"
  /\ op.count = sub.newHistory
  /\ Len(sub.snapshot.interests) > Len(profile.interests)

\* handleFeedbackSubmit from the resolution of analyzeFeedback to its end,
\* the synchronous start of triggerRefreshSequence included
AnalysisResolves ==
  /\ submit.pc = "analyzing"
  /\ \E result \in AnalyzerResults :
       LET analysis == analyzeFeedback(result)
       IN /\ lastAnalysis' = [cycle |-> submit.cycle, kind |-> result.kind,
                              stale |-> StaleSnapshot(submit, userProfile, lastOp)]
          /\ IF ThrowsTypeError(analysis)
             THEN /\ uncaught' = TRUE
                  /\ submit' = Idle
                  /\ heap' = Collect(heap, userProfile, Idle, seqs)
                  /\ UNCHANGED <<userProfile, isAnalyzing, pendingSmartFeed,
                                 isStage1Refreshing, seqs, budget, lastOp>>
             ELSE IF AnalysisFailed(analysis)
             THEN /\ isAnalyzing' = FALSE
                  /\ submit' = Idle
                  /\ heap' = Collect(heap, userProfile, Idle, seqs)
                  /\ UNCHANGED <<userProfile, pendingSmartFeed, isStage1Refreshing, seqs,
                                 uncaught, budget, lastOp>>
             ELSE \E r \in {ApplyAdjustments(heap, submit.snapshot, analysis.adjustments)} :
                  \E updatedProfile \in {WithArray(r.profile, <<"batch", submit.cycle>>)} :
                  \E q \in {StartSequence("feedback", ProfileOverride(updatedProfile, submit),
                                          submit.newHistory, analysis.query, submit.cycle,
                                          KeyLists(r.heap, r.profile))} :
                     /\ userProfile' = updatedProfile
                     /\ lastOp' = [kind |-> "batch", input |-> analysis.adjustments]
                     /\ isAnalyzing' = FALSE
                     /\ submit' = Idle
                     /\ isStage1Refreshing' = TRUE
                     /\ pendingSmartFeed' = <<>>
                     /\ seqs' = seqs \cup {q}
                     /\ budget' = [budget EXCEPT !.seqs = @ + 1]
                     /\ heap' = Collect(r.heap, r.profile, Idle, seqs \cup {q})
                     /\ UNCHANGED uncaught
  /\ UNCHANGED <<feedbackHistory, allRankedPosts, isStage2Loading, lastRerank, groq>>

\* rerankFeed up to its await (geminiService.ts 319-327): the interests
\* array of the profile it is given is sorted in place, for every holder
SortedInPlace(profile, arr, sorted) ==
  IF profile.arr = arr THEN [profile EXCEPT !.interests = sorted] ELSE profile

\* triggerRefreshSequence from the 300 ms timeout to the fetch of rerankFeed;
\* timeouts of the same delay fire in the order they were set
Retrieve(q) ==
  /\ q.stage = "wait300"
  /\ \A p \in seqs : p.stage = "wait300" => p.n >= q.n
  /\ \E hybridCandidates \in {getHybridFeed(heap, q.profileToUse, q.query)},
        allAlgoSorted \in {rankPosts(CatalogIds, heap, q.profileToUse)},
        sorted \in {SortByWeight(heap, q.profileToUse.interests)} :
     LET immediateDisplay == SortDesc(hybridCandidates)
         candidateIds == Range(IdsOf(hybridCandidates))
         restOfFeed == SelectSeq(IdsOf(allAlgoSorted), LAMBDA id : id \notin candidateIds)
         arr == q.profileToUse.arr
     IN /\ allRankedPosts' = IdsOf(immediateDisplay)
        /\ seqs' = {[p EXCEPT !.profileToUse = SortedInPlace(@, arr, sorted)] : p \in seqs \ {q}}
                     \cup
                     {[q EXCEPT !.stage = "rerank", !.candidates = IdsOf(hybridCandidates),
                                !.rest = restOfFeed,
                                !.read = KeyLists(heap, q.profileToUse),
                                !.profileToUse = SortedInPlace(@, arr, sorted)]}
        /\ userProfile' = SortedInPlace(userProfile, arr, sorted)
        /\ submit' = IF submit.pc = "analyzing"
                     THEN [submit EXCEPT !.snapshot = SortedInPlace(@, arr, sorted)]
                     ELSE submit
  /\ isStage1Refreshing' = FALSE
  /\ isStage2Loading' = TRUE
  /\ UNCHANGED <<heap, feedbackHistory, isAnalyzing,
                 pendingSmartFeed, uncaught, budget, lastOp,
                 lastAnalysis, lastRerank, groq>>

\* lines 402-416: the re-ranked candidates, the stragglers, the rest of the feed
FinalSmartFeed(orderedIds, candidates, rest) ==
  LET reordered == SelectSeq(orderedIds, LAMBDA id : id \in Range(candidates))
      stragglers == SelectSeq(candidates, LAMBDA id : id \notin Range(reordered))
  IN reordered \o stragglers \o rest

\* line 422: stage2Duration < 3000
AUTO_APPLY_MS == 3000
AutoApplyInclusive(stage2Duration) == stage2Duration <= AUTO_APPLY_MS
AutoApply(stage2Duration) == stage2Duration < AUTO_APPLY_MS

\* line 137: triggerBackgroundCleanup returns at once without a history
HistoryEmptyBelowGate(history) == history < 3
HistoryEmpty(history) == history = 0

\* line 424: setAllRankedPosts(finalSmartFeed), whatever is displayed and
\* whatever other sequence has started since
DisplayedKept(finalSmartFeed, displayed) == displayed
Displayed(finalSmartFeed, displayed) == finalSmartFeed

\* triggerRefreshSequence from the resolution of rerankFeed to its end, the
\* synchronous start of triggerBackgroundCleanup included
RerankResolves(q) ==
  /\ q.stage = "rerank"
  /\ \E result \in RerankResults, stage2Duration \in Durations :
       \E finalSmartFeed \in {FinalSmartFeed(rerankFeed(result, q.candidates), q.candidates, q.rest)} :
          /\ stage2Duration >= MinDuration(result)
          /\ IF AutoApply(stage2Duration)
             THEN allRankedPosts' = Displayed(finalSmartFeed, allRankedPosts) /\ UNCHANGED pendingSmartFeed
             ELSE pendingSmartFeed' = Pending(finalSmartFeed, q.history, q.n)
                  /\ UNCHANGED allRankedPosts
          /\ lastRerank' = [n |-> q.n, kind |-> result.kind, duration |-> stage2Duration,
                            candidates |-> q.candidates, feed |-> finalSmartFeed,
                            cleanup |-> ~HistoryEmpty(q.history)]
  /\ isStage2Loading' = FALSE
  /\ LET sq == IF ~HistoryEmpty(q.history) /\ CleanupGate(heap, q.profileToUse, q.history)
               THEN (seqs \ {q}) \cup {[q EXCEPT !.stage = "prune"]}
               ELSE seqs \ {q}
     IN seqs' = sq /\ heap' = Collect(heap, userProfile, submit, sq)
  /\ UNCHANGED <<userProfile, feedbackHistory, isAnalyzing,
                 isStage1Refreshing, submit, uncaught, budget, lastOp, lastAnalysis, groq>>

\* line 145: setUserProfile(prev => ...), the profile of the moment and not
\* the one the cleanup was started with
DecayBaseCaptured(prev, currentProfile) == currentProfile
DecayBase(prev, currentProfile) == prev

\* triggerBackgroundCleanup from the resolution of pruneUserProfile to its end
CleanupResolves(q) ==
  /\ q.stage = "prune"
  /\ \E result \in CleanupResults :
       \E adjustments \in {pruneUserProfile(result)} :
       \E r \in {ApplyDecay(heap, DecayBase(userProfile, q.profileToUse), adjustments)} :
          IF Len(adjustments) > 0
          THEN /\ userProfile' = WithArray(r.profile, <<"decay", q.n>>)
               /\ lastOp' = [kind |-> "decay", input |-> adjustments,
                             size |-> Len(userProfile.interests), count |-> feedbackHistory]
               /\ heap' = Collect(r.heap, r.profile, submit, seqs \ {q})
          ELSE /\ heap' = Collect(heap, userProfile, submit, seqs \ {q})
               /\ UNCHANGED <<userProfile, lastOp>>
  /\ seqs' = seqs \ {q}
  /\ UNCHANGED <<feedbackHistory, isAnalyzing, allRankedPosts, pendingSmartFeed,
                 isStage1Refreshing, isStage2Loading, submit, uncaught, budget,
                 lastAnalysis, lastRerank, groq>>

\* line 452: the ordering handleApplySmartSort displays
HeldPostsTruncated(pending) == Take(pending[1].posts, FeedSize)
HeldPosts(pending) == pending[1].posts

\* handleApplySmartSort: a click with nothing pending returns at line 450
ApplySmartSort ==
  /\ budget.applies < MaxApplies
  /\ budget' = [budget EXCEPT !.applies = @ + 1]
  /\ IF pendingSmartFeed = <<>>
     THEN UNCHANGED <<allRankedPosts, pendingSmartFeed>>
     ELSE /\ allRankedPosts' = HeldPosts(pendingSmartFeed)
          /\ pendingSmartFeed' = <<>>
  /\ UNCHANGED <<heap, userProfile, feedbackHistory, isAnalyzing,
                 isStage1Refreshing, isStage2Loading, submit, seqs, uncaught, lastOp,
                 lastAnalysis, lastRerank, groq>>

\* handleReset
Reset ==
  /\ budget.user < MaxUserActions
  /\ \E values \in ColdStartProfiles :
       LET m == MakeProfile(heap, values)
       IN /\ userProfile' = WithArray(m.profile, <<"reset", budget.user + 1>>)
          /\ heap' = Collect(m.heap, m.profile, submit, seqs)
  /\ feedbackHistory' = 0
  /\ pendingSmartFeed' = <<>>
  /\ allRankedPosts' \in Shuffles
  /\ budget' = [budget EXCEPT !.user = @ + 1, !.resets = @ + 1,
                               !.rseqs = budget.seqs, !.rsubmits = budget.submits]
  /\ lastOp' = [kind |-> "reset"]
  /\ UNCHANGED <<isAnalyzing, isStage1Refreshing, isStage2Loading,
                 submit, seqs, uncaught, lastAnalysis, lastRerank, groq>>

\* the feedback pipeline
Next ==
  \/ Submit
  \/ AnalysisResolves
  \/ \E q \in seqs : Retrieve(q)
  \/ \E q \in seqs : RerankResolves(q)
  \/ \E q \in seqs : CleanupResolves(q)
  \/ ApplySmartSort

Spec == Init /\ [][Next]_vars

\* the pipeline when every collaborator call is answered and every timeout
\* fires; the user's clicks (Submit, ApplySmartSort) may never come
SpecFair ==
  /\ Spec
  /\ WF_vars(AnalysisResolves)
  /\ WF_vars(\E q \in seqs : Retrieve(q))
  /\ WF_vars(\E q \in seqs : RerankResolves(q))
  /\ WF_vars(\E q \in seqs : CleanupResolves(q))


\* the pipeline with resets, in sessions of few submissions
NextReset ==
  \/ budget.submits < MaxResetSubmits /\ Submit
  \/ AnalysisResolves
  \/ \E q \in seqs : Retrieve(q)
  \/ \E q \in seqs : RerankResolves(q)
  \/ \E q \in seqs : CleanupResolves(q)
  \/ Reset

SpecReset == Init /\ [][NextReset]_vars

TypeOK ==
  /\ isAnalyzing \in BOOLEAN
  /\ Len(pendingSmartFeed) <= 1
  /\ Cardinality(seqs) <= MaxSeqs

\* ------------------------------------------------- the profile operations
\* Profiles the program can hold: keys unique in a list and in one list only,
\* weights above 0.1 and at most MAX_TAG_WEIGHT.
InterestLists ==
  { <<>>,
    <<WT(TagJazz, 50)>>,
    <<WT(TagJazzDeco, 5), WT(TagRock, 395)>>,
    <<WT(TagJazz, 50), WT(TagRock, 30), WT(TagFood, 2)>> }
DislikeLists ==
  { <<>>,
    <<WT(TagRock, 395)>>,
    <<WT(TagFood, 120), WT(TagJazzDeco, 8)>> }
KeysIn(list) == {normalizeTag(list[i].tag) : i \in 1..Len(list)}
ProfileValues ==
  {v \in [interests : InterestLists, dislikes : DislikeLists] :
     KeysIn(v.interests) \cap KeysIn(v.dislikes) = {}}

SeqsUpTo(S, n) == UNION {[1..k -> S] : k \in 0..n}

\* the adjustments an analysis may hold, and the batches made of them
AdjPool ==
  {Adj(t, c, d) : t \in {TagJazzDeco, TagRock}, c \in {"interest", "dislike"},
                  d \in {-80, 0, 60, 450}}
Batches == SeqsUpTo(AdjPool, MaxBatchLen)

\* the decay suggestions the cleanup collaborator may hold, and their lists
DecayPool == {Decay(t, d) : t \in {TagJazz, TagRock, TagDeco}, d \in {-300, -40, 20}}
DecayLists == SeqsUpTo(DecayPool, MaxDecayLen)

StView(st) ==
  [interests |-> ViewList(st.heap, st.interests), dislikes |-> ViewList(st.heap, st.dislikes)]

\* the lists before the first adjustment and after each one of the forEach
RECURSIVE AdjustmentTrace(_, _)
AdjustmentTrace(st, batch) ==
  IF batch = <<>> THEN <<StView(st)>>
  ELSE CHOOSE out \in {<<StView(st)>> \o AdjustmentTrace(next, Tail(batch)) :
                         next \in {ApplyOne(st, Head(batch))}} : TRUE

InitProfile ==
  /\ \E values \in ProfileValues :
       LET m == MakeProfile(<<>>, values)
       IN heap = m.heap /\ userProfile = WithArray(m.profile, InitArray)
  /\ allRankedPosts = CatalogIds
  /\ InitPipeline
  /\ groq = NoCall

\* handleFeedbackSubmit, lines 218-293, on the profile the state holds
FnBatch ==
  /\ budget.ops < MaxOps
  /\ \E batch \in Batches :
       \E r \in {ApplyAdjustments(heap, userProfile, batch)} :
          /\ userProfile' = WithArray(r.profile, <<"batch", budget.ops + 1>>)
          /\ heap' = Collect(r.heap, r.profile, Idle, {})
          /\ lastOp' = [kind |-> "batch", input |-> batch,
                        before |-> ViewProfile(heap, userProfile),
                        trace |-> AdjustmentTrace(
                                    [heap |-> heap, interests |-> userProfile.interests,
                                     dislikes |-> userProfile.dislikes], batch)]
  /\ budget' = [budget EXCEPT !.ops = @ + 1]
  /\ UNCHANGED <<feedbackHistory, isAnalyzing, allRankedPosts, pendingSmartFeed,
                 isStage1Refreshing, isStage2Loading, submit, seqs, uncaught,
                 lastAnalysis, lastRerank, groq>>

\* triggerBackgroundCleanup, lines 141-182, from the collaborator's
\* suggestions on: `after` is the interest list before the final filter
FnDecay ==
  /\ budget.ops < MaxOps
  /\ \E decay \in DecayLists :
       \E adjustments \in {PruneAdjustments(decay)} :
       \E r \in {ApplyDecay(heap, userProfile, adjustments)} :
          /\ IF Len(adjustments) > 0
             THEN /\ userProfile' = WithArray(r.profile, <<"decay", budget.ops + 1>>)
                  /\ heap' = Collect(r.heap, r.profile, Idle, {})
             ELSE UNCHANGED <<userProfile, heap>>
          /\ lastOp' = [kind |-> "decay", input |-> adjustments, proposed |-> decay,
                        before |-> ViewProfile(heap, userProfile),
                        after |-> ViewList(r.heap, userProfile.interests),
                        size |-> Len(userProfile.interests), count |-> feedbackHistory]
  /\ budget' = [budget EXCEPT !.ops = @ + 1]
  /\ UNCHANGED <<feedbackHistory, isAnalyzing, allRankedPosts, pendingSmartFeed,
                 isStage1Refreshing, isStage2Loading, submit, seqs, uncaught,
                 lastAnalysis, lastRerank, groq>>

NextProfile ==
  \/ FnBatch
  \/ FnDecay

SpecProfile == InitProfile /\ [][NextProfile]_vars

\* ------------------------------------------- callGroqWithRetry, step by step
pipelineVars == <<heap, userProfile, feedbackHistory, isAnalyzing, allRankedPosts,
                  pendingSmartFeed, isStage1Refreshing, isStage2Loading, submit, seqs,
                  uncaught, budget, lastOp, lastAnalysis, lastRerank>>

\* the parsed JSON of an answer with content
Payload == "payload"
NoOutcome == [kind |-> "none"]

\* the call at `for (let attempt = 0; ...`: log is the answers so far, waits
\* the timeouts slept so far, in ms
InitGroq ==
  /\ groq = [pc |-> "fetch", attempt |-> 0, log |-> <<>>, waits |-> <<>>,
             outcome |-> NoOutcome]
  /\ heap = <<>>
  /\ userProfile = WithArray([interests |-> <<>>, dislikes |-> <<>>], InitArray)
  /\ allRankedPosts = CatalogIds
  /\ InitPipeline

\* line 158: the catch rethrows on the last attempt only
LastAttempt(attempt) == attempt = Retries - 1

\* one iteration of the loop from `await fetch` on (lines 105-162): a 429
\* starts the timeout of line 125; an answer with parsable content is
\* returned; every other answer throws inside the try
GroqFetch ==
  /\ groq.pc = "fetch"
  /\ \E r \in Responses :
       groq' = IF r = "429"
               THEN [groq EXCEPT !.log = Append(@, r), !.pc = "backoff"]
               ELSE IF r = "ok"
               THEN [groq EXCEPT !.log = Append(@, r), !.pc = "done",
                                 !.outcome = Value(Payload)]
               ELSE IF LastAttempt(groq.attempt)
               THEN [groq EXCEPT !.log = Append(@, r), !.pc = "done", !.outcome = Thrown]
               ELSE [groq EXCEPT !.log = Append(@, r), !.attempt = @ + 1]
  /\ UNCHANGED pipelineVars

\* lines 125-126 and the loop header: the timeout fires, `continue`; when the
\* loop condition fails the function ends without a return statement
GroqBackoff ==
  /\ groq.pc = "backoff"
  /\ LET next == groq.attempt + 1
     IN groq' = [groq EXCEPT !.waits = Append(@, Backoff(groq.attempt)),
                             !.attempt = next,
                             !.pc = IF next < Retries THEN "fetch" ELSE "done",
                             !.outcome = IF next < Retries THEN @ ELSE Undefined]
  /\ UNCHANGED pipelineVars

NextGroq ==
  \/ GroqFetch
  \/ GroqBackoff

SpecGroq == InitGroq /\ [][NextGroq]_vars

\* the call, step by step, ends as the function callGroqWithRetry of the
\* pipeline actions does on the same answers
GroqAgrees ==
  groq.pc = "done" =>
    \A responses \in [1..Retries -> Responses] :
      SubSeq(responses, 1, Len(groq.log)) = groq.log =>
        callGroqWithRetry(responses, Payload) = groq.outcome

\* ------------------------------------------------------------ rank, alone
MaxRankLen == 3       \* posts in a catalog handed to rankPosts

\* catalogs: lists of distinct posts
RankCatalogs ==
  {c \in SeqsUpTo({AllPosts[i].id : i \in 1..Len(AllPosts)}, MaxRankLen) :
     Len(c) >= 2 /\ Cardinality(Range(c)) = Len(c)}

InitRank ==
  /\ \E values \in ProfileValues :
       LET m == MakeProfile(<<>>, values)
       IN heap = m.heap /\ userProfile = WithArray(m.profile, InitArray)
  /\ \E posts \in RankCatalogs : lastOp = [kind |-> "catalog", posts |-> posts]
  /\ allRankedPosts = CatalogIds
  /\ feedbackHistory = 0
  /\ isAnalyzing = FALSE
  /\ pendingSmartFeed = <<>>
  /\ isStage1Refreshing = FALSE
  /\ isStage2Loading = FALSE
  /\ submit = Idle
  /\ seqs = {}
  /\ uncaught = FALSE
  /\ budget = [submits |-> 0, user |-> 0, seqs |-> 0, ops |-> 0, applies |-> 0,
              resets |-> 0, rseqs |-> 0, rsubmits |-> 0]
  /\ lastAnalysis = NoAnalysis
  /\ lastRerank = NoRerank
  /\ groq = NoCall

\* rankPosts(posts, profile) on the catalog and the profile of the state
FnRank ==
  /\ lastOp.kind = "catalog"
  /\ \E ranked \in {rankPosts(lastOp.posts, heap, userProfile)} :
       lastOp' = [kind |-> "rank", posts |-> lastOp.posts, ranked |-> ranked]
  /\ UNCHANGED <<heap, userProfile, feedbackHistory, isAnalyzing, allRankedPosts,
                 pendingSmartFeed, isStage1Refreshing, isStage2Loading, submit, seqs,
                 uncaught, budget, lastAnalysis, lastRerank, groq>>

NextRank == FnRank

SpecRank == InitRank /\ [][NextRank]_vars

\* --------------------------------- calculateRelevanceScore, as src/ has it
\* services/recommendationEngine.ts: tags are matched as strings against
\* profile.likeTags and profile.dislikeTags, and every call adds
\* Math.random() * 5 before Math.round.
MaxCalls == 2         \* calls of the same function on the same arguments

\* posts with 10, 100 and 1000 likes, so that Math.log10(post.likes) * 5 is
\* a whole number
TagPosts == <<
  [id |-> "t1", tags |-> <<TagJazz>>, likes |-> 10],
  [id |-> "t2", tags |-> <<TagRock, TagFood>>, likes |-> 100],
  [id |-> "t3", tags |-> <<TagFood>>, likes |-> 1000] >>
TagPostIds == {TagPosts[i].id : i \in 1..Len(TagPosts)}
TagPostOf(id) == TagPosts[CHOOSE i \in 1..Len(TagPosts) : TagPosts[i].id = id]

\* INITIAL_USER_PROFILE's shape: two lists of tag strings
TagProfiles ==
  {[likeTags |-> l, dislikeTags |-> d] :
     l \in {<<>>, <<TagJazz>>, <<TagFood>>, <<TagJazz, TagFood>>},
     d \in {<<>>, <<TagRock>>, <<TagFood>>}}

LogLikes(n) == CASE n = 10 -> 1 [] n = 100 -> 2 [] n = 1000 -> 3 [] OTHER -> 0
Includes(list, tag) == \E i \in 1..Len(list) : list[i] = tag

\* Math.round(whole + Math.random() * 5) - whole, Math.random() in [0, 1)
ExplorationNoise == 0..5

\* the values one call can return
ScoreOutcomes(post, profile) ==
  LET matchedDislikes == SelectSeq(post.tags, LAMBDA tag : Includes(profile.dislikeTags, tag))
      matchedLikes == SelectSeq(post.tags, LAMBDA tag : Includes(profile.likeTags, tag))
      base == LogLikes(post.likes) * 5 - 500 * Len(matchedDislikes) + 100 * Len(matchedLikes)
      reasons == (IF Len(matchedDislikes) > 0 THEN <<[hit |-> "dislike", tags |-> matchedDislikes]>> ELSE <<>>)
                 \o (IF Len(matchedLikes) > 0 THEN <<[hit |-> "interest", tags |-> matchedLikes]>> ELSE <<>>)
  IN {[score |-> base + noise, reason |-> reasons] : noise \in ExplorationNoise}

\* rankPosts of the same file: one scoring call per post, then the sort; the
\* lists of [id, score, reason] one call can return
RECURSIVE ScoredLists(_, _)
ScoredLists(posts, profile) ==
  IF posts = <<>> THEN {<<>>}
  ELSE {<<[id |-> Head(posts), score |-> r.score, reason |-> r.reason]>> \o rest :
          r \in ScoreOutcomes(TagPostOf(Head(posts)), profile),
          rest \in ScoredLists(Tail(posts), profile)}
RankOutcomes(posts, profile) == {SortDesc(scored) : scored \in ScoredLists(posts, profile)}

TagCatalogs == {c \in SeqsUpTo(TagPostIds, 2) : Len(c) = 2 /\ c[1] # c[2]}

InitScore ==
  /\ \/ \E id \in TagPostIds, profile \in TagProfiles :
          lastOp = [kind |-> "score", post |-> id, profile |-> profile, calls |-> <<>>]
     \/ \E posts \in TagCatalogs, profile \in TagProfiles :
          lastOp = [kind |-> "order", posts |-> posts, profile |-> profile, calls |-> <<>>]
  /\ heap = <<>>
  /\ userProfile = WithArray([interests |-> <<>>, dislikes |-> <<>>], InitArray)
  /\ allRankedPosts = CatalogIds
  /\ feedbackHistory = 0
  /\ isAnalyzing = FALSE
  /\ pendingSmartFeed = <<>>
  /\ isStage1Refreshing = FALSE
  /\ isStage2Loading = FALSE
  /\ submit = Idle
  /\ seqs = {}
  /\ uncaught = FALSE
  /\ budget = [submits |-> 0, user |-> 0, seqs |-> 0, ops |-> 0, applies |-> 0,
              resets |-> 0, rseqs |-> 0, rsubmits |-> 0]
  /\ lastAnalysis = NoAnalysis
  /\ lastRerank = NoRerank
  /\ groq = NoCall

\* one more call of calculateRelevanceScore(post, profile)
FnScore ==
  /\ lastOp.kind = "score"
  /\ Len(lastOp.calls) < MaxCalls
  /\ \E r \in ScoreOutcomes(TagPostOf(lastOp.post), lastOp.profile) :
       lastOp' = [lastOp EXCEPT !.calls = Append(@, r)]
  /\ UNCHANGED <<heap, userProfile, feedbackHistory, isAnalyzing, allRankedPosts,
                 pendingSmartFeed, isStage1Refreshing, isStage2Loading, submit, seqs,
                 uncaught, budget, lastAnalysis, lastRerank, groq>>

\* one more call of rankPosts(posts, profile); the order it returns
FnOrder ==
  /\ lastOp.kind = "order"
  /\ Len(lastOp.calls) < MaxCalls
  /\ \E ranked \in RankOutcomes(lastOp.posts, lastOp.profile) :
       lastOp' = [lastOp EXCEPT !.calls = Append(@, IdsOf(ranked))]
  /\ UNCHANGED <<heap, userProfile, feedbackHistory, isAnalyzing, allRankedPosts,
                 pendingSmartFeed, isStage1Refreshing, isStage2Loading, submit, seqs,
                 uncaught, budget, lastAnalysis, lastRerank, groq>>

NextScore == FnScore \/ FnOrder

SpecScore == InitScore /\ [][NextScore]_vars

UniqueKeys ==
  /\ Cardinality(KeysOf(heap, userProfile.interests)) = Len(userProfile.interests)
  /\ Cardinality(KeysOf(heap, userProfile.dislikes)) = Len(userProfile.dislikes)

\* C2: at every state every weight in the interests list and in the dislikes
\* list is above 0.1 and at most MAX_TAG_WEIGHT.
WeightBounds ==
  \A id \in Range(userProfile.interests) \cup Range(userProfile.dislikes) :
    heap[id].weight > PruneThreshold /\ heap[id].weight <= MAX_TAG_WEIGHT

\* a batch has pushed an interest to the cap and a decay has been applied since
WeightBoundsWitness ==
  /\ lastOp.kind = "decay"
  /\ \E id \in Range(userProfile.interests) : heap[id].weight = MAX_TAG_WEIGHT

\* C3: each adjustment of a batch flips polarity.  A "dislike" adjustment with
\* delta d leaves no interest with the tag's key and the dislike weight
\* min(40, previous or 0, plus |d|); an "interest" adjustment leaves no dislike
\* with the key and the interest weight min(40, previous + d) if the key was
\* an interest, min(40, d) as a new entry if d > 0, and no entry otherwise.
PolarityFlip ==
  lastOp.kind = "batch" =>
    \A i \in 1..Len(lastOp.input) :
      LET adj == lastOp.input[i]
          pre == lastOp.trace[i]
          post == lastOp.trace[i + 1]
          key == normalizeTag(adj.tag)
          Has(list) == \E j \in 1..Len(list) : normalizeTag(list[j].tag) = key
          Weight(list) ==
            IF Has(list)
            THEN list[CHOOSE j \in 1..Len(list) : normalizeTag(list[j].tag) = key].weight
            ELSE 0
      IN IF adj.category = "dislike"
         THEN /\ ~Has(post.interests)
              /\ Weight(post.dislikes) = Min(MAX_TAG_WEIGHT, Weight(pre.dislikes) + Abs(adj.delta))
         ELSE /\ ~Has(post.dislikes)
              /\ IF Has(pre.interests)
                 THEN Has(post.interests)
                      /\ Weight(post.interests) = Min(MAX_TAG_WEIGHT, Weight(pre.interests) + adj.delta)
                 ELSE IF adj.delta > 0
                 THEN Has(post.interests) /\ Weight(post.interests) = Min(MAX_TAG_WEIGHT, adj.delta)
                 ELSE ~Has(post.interests)

\* a dislike with a negative delta has moved an interest to the dislikes
PolarityFlipWitness ==
  /\ lastOp.kind = "batch"
  /\ \E i \in 1..Len(lastOp.input) :
       /\ lastOp.input[i].category = "dislike"
       /\ lastOp.input[i].delta < 0
       /\ \E j \in 1..Len(lastOp.trace[i].interests) :
            normalizeTag(lastOp.trace[i].interests[j].tag) = normalizeTag(lastOp.input[i].tag)
       /\ normalizeTag(lastOp.input[i].tag) \in KeysOf(heap, userProfile.dislikes)

\* C4: an empty adjustment list leaves the profile as it was: same tags, same
\* weights, same order in both lists.
EmptyBatchIdentity ==
  (lastOp.kind = "batch" /\ lastOp.input = <<>>) =>
    ViewProfile(heap, userProfile) = lastOp.before

\* the empty batch was applied to a profile with a weight between 0.1 and 1
EmptyBatchWitness ==
  /\ lastOp.kind = "batch"
  /\ lastOp.input = <<>>
  /\ \E i \in 1..Len(lastOp.before.interests) :
       lastOp.before.interests[i].weight <= Scale
  /\ lastOp.before.dislikes # <<>>

\* C5: a decay changes an interest by an amount in [-10, 0] for each
\* suggestion that matches it, whatever the collaborator proposed, never
\* leaves a negative weight, and never creates an entry; suggestions that
\* match no interest change nothing.
DecayClamp ==
  lastOp.kind = "decay" =>
    LET b == lastOp.before.interests
        a == lastOp.after
        Matching(i) == {j \in 1..Len(lastOp.proposed) :
                          normalizeTag(lastOp.proposed[j].tag) = normalizeTag(b[i].tag)}
        now == ViewProfile(heap, userProfile)
    IN /\ Len(a) = Len(b)
       /\ \A i \in 1..Len(b) :
            /\ a[i].tag = b[i].tag
            /\ a[i].weight >= 0
            /\ a[i].weight <= b[i].weight
            /\ b[i].weight - a[i].weight <= DecayFloor * Cardinality(Matching(i))
       /\ Range(now.interests) \subseteq Range(a)
       /\ now.dislikes = lastOp.before.dislikes
       /\ (\A i \in 1..Len(b) : Matching(i) = {}) => now = lastOp.before

\* a proposed decay of 30 took exactly 10 from an interest
DecayClampWitness ==
  /\ lastOp.kind = "decay"
  /\ \E j \in 1..Len(lastOp.proposed) : lastOp.proposed[j].delta < -DecayFloor
  /\ \E i \in 1..Len(lastOp.after) :
       lastOp.before.interests[i].weight - lastOp.after[i].weight = DecayFloor

\* C6: a decay is applied only when the session's feedback count is at least
\* 3 and the interests list of the profile it is applied to holds at least
\* 3 entries at that moment.
DecayGated ==
  lastOp.kind = "decay" => lastOp.count >= 3 /\ lastOp.size >= 3

\* C7: a feedback cycle's refresh sequence does not exist before the cycle's
\* analyzeFeedback call has resolved, and its hybrid retrieval reads the
\* lists the cycle's batch has produced.
RetrievalAfterAdjustment ==
  \A q \in seqs :
    q.kind = "feedback" =>
      /\ ~(submit.pc = "analyzing" /\ submit.cycle = q.cycle)
      /\ lastAnalysis.cycle >= q.cycle
      /\ q.stage # "wait300" => q.read = q.written

\* a retrieval has read lists in which the cycle's batch moved a tag
RetrievalWitness ==
  \E q \in seqs :
    /\ q.kind = "feedback"
    /\ q.stage = "rerank"
    /\ q.read.dislikes # <<>>
    /\ q.read = q.written

\* C8 as stated: handling a failed analyzeFeedback call leaves the profile
\* unchanged and the cycle goes on to retrieval and re-rank, that is, the
\* handler starts the cycle's refresh sequence.
FailedAnalysisStillRefreshes ==
  [][(lastAnalysis' # lastAnalysis /\ lastAnalysis'.kind = "throw") =>
       /\ ViewProfile(heap', userProfile') = ViewProfile(heap, userProfile)
       /\ \E q \in seqs' : q.kind = "feedback" /\ q.cycle = lastAnalysis'.cycle]_vars

\* C8, amended: handling a failed analyzeFeedback call leaves the profile, the
\* display and the pending feed as they were and starts no refresh sequence;
\* when the call threw (analyzeFeedback returned its "Failed" result) the
\* handler also clears isAnalyzing and raises no exception.
FailedAnalysisEndsCycle ==
  [][(lastAnalysis' # lastAnalysis /\ lastAnalysis'.kind \in {"throw", "undefined"}) =>
       /\ ViewProfile(heap', userProfile') = ViewProfile(heap, userProfile)
       /\ allRankedPosts' = allRankedPosts
       /\ pendingSmartFeed' = pendingSmartFeed
       /\ seqs' = seqs
       /\ budget'.seqs = budget.seqs
       /\ lastAnalysis'.kind = "throw" => ~isAnalyzing' /\ uncaught' = uncaught]_vars

\* a failed call has been handled and the handler is back to idle
FailedAnalysisWitness ==
  /\ lastAnalysis.kind = "throw"
  /\ submit = Idle
  /\ ~isAnalyzing
  /\ seqs = {}
  /\ feedbackHistory = lastAnalysis.cycle

\* C9: no outcome of the analyzer call makes handleFeedbackSubmit end with an
\* exception, and the handler always clears isAnalyzing when it ends.
NoUncaughtException ==
  /\ ~uncaught
  /\ submit = Idle => ~isAnalyzing

HeldAppliedOnlyByUser ==
  [][/\ budget'.applies # budget.applies =>
          /\ IF pendingSmartFeed = <<>>
             THEN allRankedPosts' = allRankedPosts
             ELSE allRankedPosts' = pendingSmartFeed[1].posts
          /\ pendingSmartFeed' = <<>>
          /\ UNCHANGED <<heap, userProfile, feedbackHistory, isAnalyzing, isStage1Refreshing,
                         isStage2Loading, submit, seqs, uncaught, lastOp, lastAnalysis,
                         lastRerank>>
     /\ (budget'.applies = budget.applies /\ allRankedPosts' # allRankedPosts) =>
          /\ pendingSmartFeed' = pendingSmartFeed
          /\ \E q \in seqs : q.stage \in {"wait300", "rerank"} /\ q \notin seqs'
          /\ lastRerank' # lastRerank => allRankedPosts' = lastRerank'.feed]_vars

\* the click has put a held result, which took 3000 ms or more, on display
HeldAppliedWitness ==
  /\ budget.applies = 1
  /\ pendingSmartFeed = <<>>
  /\ lastRerank.duration >= AUTO_APPLY_MS
  /\ allRankedPosts = lastRerank.feed
  /\ Len(allRankedPosts) > FeedSize

\* C12: whatever id list the Reranker returned, the feed that is applied or
\* held lists every catalog post exactly once, the posts of the candidate set
\* in its first |candidates| places.
RerankedFeedIsPermutation ==
  lastRerank.kind # "none" =>
    /\ Len(lastRerank.feed) = Len(Catalog)
    /\ Range(lastRerank.feed) = PostIds
    /\ Range(Take(lastRerank.feed, Len(lastRerank.candidates))) = Range(lastRerank.candidates)

\* C13: when the Reranker call failed (it threw, or it ended without a
\* value), the feed that is applied or held starts with the candidates in
\* the order the hybrid retrieval returned them.
RerankFailureKeepsOrder ==
  lastRerank.kind \in {"throw", "undefined"} =>
    Take(lastRerank.feed, Len(lastRerank.candidates)) = lastRerank.candidates

\* a call answered 429 on every attempt has ended and its feed is held
RerankFailureWitness ==
  /\ lastRerank.kind = "undefined"
  /\ lastRerank.candidates # <<>>
  /\ pendingSmartFeed # <<>>
  /\ pendingSmartFeed[1].posts = lastRerank.feed
  /\ Take(lastRerank.feed, Len(lastRerank.candidates)) = lastRerank.candidates

CleanupOnlyLowersInterests ==
  [][(\E q \in seqs : q.stage = "prune" /\ q \notin seqs') =>
       /\ allRankedPosts' = allRankedPosts
       /\ pendingSmartFeed' = pendingSmartFeed
       /\ feedbackHistory' = feedbackHistory
       /\ ViewList(heap', userProfile'.dislikes) = ViewList(heap, userProfile.dislikes)
       /\ userProfile'.interests =
            SelectSeq(userProfile.interests, LAMBDA id : id \in Range(userProfile'.interests))
       /\ \A id \in Range(userProfile'.interests) :
            /\ heap'[id].tag = heap[id].tag
            /\ heap'[id].weight <= heap[id].weight
       /\ \A id \in (DOMAIN heap \cap DOMAIN heap') \ Range(userProfile.interests) :
            heap'[id] = heap[id]]_vars

\* a decay has lowered an interest while a re-ranked feed is held and the
\* profile has dislikes
CleanupOnlyLowersWitness ==
  /\ lastOp.kind = "decay"
  /\ lastOp.input # <<>>
  /\ \E i \in 1..Len(lastOp.input) :
       /\ lastOp.input[i].delta < 0
       /\ normalizeTag(lastOp.input[i].tag) \in KeysOf(heap, userProfile.interests)
  /\ userProfile.dislikes # <<>>
  /\ pendingSmartFeed # <<>>

\* C16: a callGroqWithRetry call that has ended made at most `retries`
\* attempts, and when every attempt was answered 429 it ended by throwing.
RateLimitedCallFails ==
  groq.pc = "done" =>
    /\ Len(groq.log) <= Retries
    /\ (\A i \in DOMAIN groq.log : groq.log[i] = "429") => groq.outcome.kind = "throw"

\* C17: when every collaborator call is answered, a feedback submission is
\* followed by a state in which nothing is in flight: isAnalyzing and
\* isStage2Loading are false, no handler waits and no sequence is at a stage.
PipelineReturnsToIdle ==
  (submit.pc = "analyzing") ~>
     (~isAnalyzing /\ ~isStage2Loading /\ ~isStage1Refreshing /\ submit = Idle /\ seqs = {})

VetoedScoreAtMostSentinel ==
  lastOp.kind = "rank" =>
    \A i \in 1..Len(lastOp.ranked) :
      Vetoed(heap, userProfile, PostOf(lastOp.ranked[i].id)) =>
        lastOp.ranked[i].score <= -VetoSentinel

\* C20: in the result of a rank call no vetoed post comes before a post that
\* is not vetoed.
VetoedRankLast ==
  lastOp.kind = "rank" =>
    \A i, j \in 1..Len(lastOp.ranked) :
      (i < j /\ Vetoed(heap, userProfile, PostOf(lastOp.ranked[i].id))) =>
        Vetoed(heap, userProfile, PostOf(lastOp.ranked[j].id))


\* C21: in the result of a rank call, of two vetoed posts the one with the
\* higher score before the veto has the higher final score and comes first.
VetoKeepsOrder ==
  lastOp.kind = "rank" =>
    \A i, j \in 1..Len(lastOp.ranked) :
      LET X == PostOf(lastOp.ranked[i].id)
          Y == PostOf(lastOp.ranked[j].id)
      IN (/\ Vetoed(heap, userProfile, X)
          /\ Vetoed(heap, userProfile, Y)
          /\ PreVetoScore(heap, userProfile, X) > PreVetoScore(heap, userProfile, Y))
         => (lastOp.ranked[i].score > lastOp.ranked[j].score /\ i < j)

\* C22: two calls of the scoring function on the same post and profile
\* return the same value and the same reason, and two rank calls on the same
\* catalog and profile return the same order.
ScoringDeterministic ==
  lastOp.kind \in {"score", "order"} =>
    \A i, j \in 1..Len(lastOp.calls) : lastOp.calls[i] = lastOp.calls[j]

\* C23: a rank call returns every post of its catalog exactly once, with the
\* score of that post, in non-increasing score order, posts of equal score in
\* catalog order, and leaves the catalog as it was.
RankIsStablePermutation ==
  [][(lastOp.kind = "catalog" /\ lastOp'.kind = "rank") =>
       LET posts == lastOp.posts
           ranked == lastOp'.ranked
           Place(id) == CHOOSE k \in 1..Len(posts) : posts[k] = id
       IN /\ lastOp'.posts = posts
          /\ Len(ranked) = Len(posts)
          /\ \A k \in 1..Len(posts) :
               Cardinality({i \in 1..Len(ranked) : ranked[i].id = posts[k]}) = 1
          /\ \A i \in 1..Len(ranked) :
               ranked[i].score = calculateRelevanceScore(heap, userProfile, PostOf(ranked[i].id))
          /\ \A i, j \in 1..Len(ranked) :
               i < j => /\ ranked[i].score >= ranked[j].score
                        /\ ranked[i].score = ranked[j].score => Place(ranked[i].id) < Place(ranked[j].id)
     ]_vars

\* a rank call has moved a post ahead of an earlier one and has kept two
\* posts of equal score in catalog order
RankIsStableWitness ==
  /\ lastOp.kind = "rank"
  /\ Len(lastOp.ranked) = MaxRankLen
  /\ IdsOf(lastOp.ranked) # lastOp.posts
  /\ \E i \in 1..(Len(lastOp.ranked) - 1) : lastOp.ranked[i].score = lastOp.ranked[i + 1].score
  /\ \E i \in 1..(Len(lastOp.ranked) - 1) : lastOp.ranked[i].score > lastOp.ranked[i + 1].score

\* C24: the result of an older refresh sequence that arrives in less than
\* 3000 ms is put on display although a newer sequence has started: the step
\* shows the older sequence's feed, built from the older candidates, and
\* nothing holds it back or marks it.
StaleAutoApplyLands ==
  [][(/\ lastRerank'.n # lastRerank.n
      /\ lastRerank'.duration < AUTO_APPLY_MS
      /\ \E p \in seqs : p.n > lastRerank'.n)
     => /\ allRankedPosts' = lastRerank'.feed
        /\ Range(lastRerank'.candidates) \subseteq Range(lastRerank'.feed)
        /\ UNCHANGED <<userProfile, pendingSmartFeed>>]_vars

\* the newer feedback cycle has written its profile and displayed its own
\* candidates, and after that the older sequence's result was auto-applied
StaleAutoApplyWitness ==
  /\ lastRerank.kind # "none"
  /\ lastRerank.duration < AUTO_APPLY_MS
  /\ allRankedPosts = lastRerank.feed
  /\ lastOp.kind = "batch"
  /\ \E p \in seqs :
       /\ p.n > lastRerank.n
       /\ p.kind = "feedback"
       /\ p.stage = "rerank"
       /\ p.candidates # lastRerank.candidates
       /\ Len(p.candidates) < Len(allRankedPosts)
       /\ Take(allRankedPosts, Len(p.candidates)) # p.candidates

\* the entries of a list whose canonical key no adjustment of the batch names
Unnamed(h, list, batch) ==
  {h[id] : id \in {i \in Range(list) :
                     \A k \in 1..Len(batch) : normalizeTag(h[i].tag) # normalizeTag(batch[k].tag)}}

HybridDisplayedAsReturned ==
  [][\A q \in seqs :
       q.stage = "wait300" =>
         \A p \in seqs' :
           (p.n = q.n /\ p.stage = "rerank") => allRankedPosts' = p.candidates]_vars

\* C27: in a callGroqWithRetry call every attempt after the first follows a
\* 429 answer and the wait of 1000 * 2^attempt ms (1 s, 2 s, 4 s in turn),
\* and an answer that is a failure of any other kind is the last one: the
\* call has ended by throwing.
RetryOnlyAfterRateLimit ==
  /\ \A i \in 2..Len(groq.log) : groq.log[i - 1] = "429"
  /\ \A k \in 1..Len(groq.waits) : groq.waits[k] = Backoff(k - 1)
  /\ \A i \in 1..Len(groq.log) :
       groq.log[i] \notin {"429", "ok"} =>
         i = Len(groq.log) /\ groq.pc = "done" /\ groq.outcome.kind = "throw"

\* C28: a feedback submission starts only when no analyzeFeedback call is in
\* flight and isAnalyzing is false, and as long as the call is in flight
\* isAnalyzing is true; calls of earlier cycles' refresh sequences do not
\* hold a submission back.
OneAnalyzerCall ==
  [][/\ budget'.submits # budget.submits
          => /\ ~isAnalyzing
             /\ submit = Idle
             /\ submit'.pc = "analyzing"
             /\ submit'.cycle = budget'.submits
             /\ seqs' = seqs
     /\ submit'.pc = "analyzing" => isAnalyzing'
    ]_vars

\* a submission is being analysed while the Reranker call of the cycle
\* before it is still in flight
OneAnalyzerCallWitness ==
  /\ submit.pc = "analyzing"
  /\ isAnalyzing
  /\ \E q \in seqs : q.kind = "feedback" /\ q.stage = "rerank" /\ q.cycle < submit.cycle

\* C29: a held re-ranking result is the result of the refresh sequence that
\* was started last.
PendingIsNewest ==
  pendingSmartFeed # <<>> => pendingSmartFeed[1].of = budget.seqs

\* C30: after a reset, a step of a cycle that started before the reset (its
\* analyzeFeedback call resolving, or one of its sequence's stages ending)
\* leaves the profile, the displayed ordering and the pending result as the
\* reset, or what came after it, has set them.
ResetIsolatesOldCycles ==
  [][(/\ budget.resets > 0
      /\ budget' = budget \/ budget'.seqs # budget.seqs
      /\ \/ submit.pc = "analyzing" /\ submit.cycle <= budget.rsubmits /\ submit'.pc # "analyzing"
         \/ \E q \in seqs :
              /\ q.n <= budget.rseqs \/ (q.kind = "feedback" /\ q.cycle <= budget.rsubmits)
              /\ ~\E p \in seqs' : p.n = q.n /\ p.stage = q.stage)
     => /\ ViewProfile(heap', userProfile') = ViewProfile(heap, userProfile)
        /\ allRankedPosts' = allRankedPosts
        /\ pendingSmartFeed' = pendingSmartFeed]_vars
====
